---- MODULE Spec2Model ----
(***************************************************************************)
(* SchedulerSim: a tick-driven simulation of a CPU scheduler.              *)
(*   opsys.py   Process, PSJFScheduler, FIFOScheduler, OperatingSystem     *)
(*   engine.py  SimEngine.run, the per-tick protocol                       *)
(* Probabilities and random() samples are counted in tenths: random()      *)
(* yields a value of [0,1), here one of RandomDraws; 0.2 is 2, 1.0 is 10.  *)
(***************************************************************************)
EXTENDS Integers, Sequences, FiniteSets, TLC

\* ---- bounds of the model ----
MaxStart == 1       \* largest start_time a process is created with
MaxTicks == 6       \* the duration argument of a long run()
ShortRun == 1       \* largest duration argument of the other run() calls
MaxRuns == 2        \* number of run() calls made on the engine

\* ---- the inputs ----
PIDs == {"p0", "p1"}
InitialList == <<"p0", "p1">>
StartTimes == 0..MaxStart
DurationArgs == {0 - 1, 0, 1, 2, 5}
ProbArgs == {0, 5, 10}
\* the first run() is short or long, a later run() is short
RunArgs == ((0 - 1)..ShortRun) \cup {MaxTicks}
\* the smallest and the largest sample of random(), in tenths
RandomDraws == {0, 9}
Schedulers == {"PSJF", "FIFO"}

\* ---- definitions.py ----
ProcessState == {"RUNNING", "READY", "BLOCKED", "NEW", "TERMINATED"}
RUN == "RUN"
ISSUE_IO == "ISSUE_IO"
None == "None"

IoCompletionProb == 2

VARIABLES
    scheduling_policy,  \* OperatingSystem.scheduling_policy
    procs,              \* per process: start_time, duration, _prob_io_request
    duration_arg,       \* the duration argument each Process was constructed with
    time_executed,      \* Process.time_executed
    processes,          \* OperatingSystem.processes: ProcessState -> list of Process
    initial_processes,  \* SimEngine.initial_processes
    time,               \* SimEngine.time
    run_duration,       \* the duration argument of the run() in progress
    pc,                 \* position of the engine inside run()
    runs,               \* number of run() calls made so far
    ticks,              \* passes through the loop body in the run() in progress
    last_call,          \* the last direct call of an OperatingSystem method:
                        \* its name, its argument and the exception it raised
    engine,             \* two SimEngine objects side by side: per engine its
                        \* opsys reference and the fields of SimEngine
    heap                \* the OperatingSystem objects those engines refer to:
                        \* object -> its processes

\* what the steps of SimEngine.run leave alone
aux == <<last_call, engine, heap>>

vars == <<scheduling_policy, procs, duration_arg, time_executed, processes,
          initial_processes, time, run_duration, pc, runs, ticks, aux>>

\* ---- helpers over Python lists ----
Abs(n) == IF n < 0 THEN 0 - n ELSE n

Range(s) == {s[i] : i \in 1..Len(s)}

\* number of occurrences of x in the list s
Count(s, x) == Cardinality({i \in 1..Len(s) : s[i] = x})

\* list.remove(x): drops the first occurrence of x
Remove(s, x) ==
    IF x \notin Range(s) THEN s
    ELSE LET i == CHOOSE k \in 1..Len(s) :
                      s[k] = x /\ \A j \in 1..(k - 1) : s[j] # x
         IN  SubSeq(s, 1, i - 1) \o SubSeq(s, i + 1, Len(s))

\* min(s, key=...): the first element of s whose key is the smallest; key
\* is the key function tabulated over the processes
MinByKey(s, key) ==
    s[CHOOSE i \in 1..Len(s) :
          /\ \A j \in 1..Len(s) : key[s[i]] <= key[s[j]]
          /\ \A j \in 1..(i - 1) : key[s[j]] > key[s[i]]]

\* ---- Process ----
NewProcess(start, dur, prob) ==
    [start_time |-> start, duration |-> Abs(dur), prob_io_request |-> prob]

\* mutant: the comparison with the sample is reversed
ExecuteTickActionReversed(p, r) ==
    IF r > procs[p].prob_io_request THEN ISSUE_IO ELSE RUN

\* Process.execute_tick on the sample r of random()
ExecuteTickAction(p, r) ==
    IF r < procs[p].prob_io_request THEN ISSUE_IO ELSE RUN

Remaining(p) == procs[p].duration - time_executed[p]

StartTimeOf(p) == procs[p].start_time

\* the key functions of the two schedulers
RemainingKey == [p \in PIDs |-> Remaining(p)]
StartTimeKey == [p \in PIDs |-> StartTimeOf(p)]

\* ---- schedulers ----
\* mutant: the key is the duration, the ticks already executed are ignored
PSJFScheduleByDuration(ready_processes, running_process) ==
    LET available_processes ==
            IF running_process # None
            THEN Append(ready_processes, running_process)
            ELSE ready_processes
        DurationKey == [p \in PIDs |-> procs[p].duration]
    IN  IF available_processes = <<>> THEN None
        ELSE MinByKey(available_processes, DurationKey)

\* mutant: a running process is never preempted
PSJFScheduleNoPreempt(ready_processes, running_process) ==
    IF running_process # None THEN running_process
    ELSE IF ready_processes = <<>> THEN None
    ELSE MinByKey(ready_processes, RemainingKey)

\* mutant: the running process is put in front of the pool
PSJFScheduleRunningFirst(ready_processes, running_process) ==
    LET available_processes ==
            IF running_process # None
            THEN <<running_process>> \o ready_processes
            ELSE ready_processes
    IN  IF available_processes = <<>> THEN None
        ELSE MinByKey(available_processes, RemainingKey)

PSJFSchedule(ready_processes, running_process) ==
    LET available_processes ==
            IF running_process # None
            THEN Append(ready_processes, running_process)
            ELSE ready_processes
    IN  IF available_processes = <<>> THEN None
        ELSE MinByKey(available_processes, RemainingKey)

\* mutant: the running process competes with READY on start_time
FIFOSchedulePreempt(ready_processes, running_process) ==
    LET available_processes ==
            IF running_process # None
            THEN Append(ready_processes, running_process)
            ELSE ready_processes
    IN  IF available_processes = <<>> THEN None
        ELSE MinByKey(available_processes, StartTimeKey)

\* mutant: the head of READY is taken, whatever its start_time
FIFOScheduleHeadOfReady(ready_processes, running_process) ==
    IF running_process # None THEN running_process
    ELSE IF ready_processes = <<>> THEN None
    ELSE ready_processes[1]

FIFOSchedule(ready_processes, running_process) ==
    IF running_process # None THEN running_process
    ELSE IF ready_processes = <<>> THEN None
    ELSE MinByKey(ready_processes, StartTimeKey)

Schedule(policy, ready_processes, running_process) ==
    IF policy = "PSJF" THEN PSJFSchedule(ready_processes, running_process)
    ELSE FIFOSchedule(ready_processes, running_process)

\* ---- OperatingSystem ----
EmptyQueues == [s \in ProcessState |-> <<>>]

RunningProcess(q) == IF q["RUNNING"] = <<>> THEN None ELSE q["RUNNING"][1]

AddNewProcesses(q, list) == [q EXCEPT !["NEW"] = q["NEW"] \o list]

\* the loop of check_for_new_processes over the copy of NEW, from index i
RECURSIVE AdmitFrom(_, _, _, _)
AdmitFrom(q, copy, i, current_time) ==
    IF i > Len(copy) THEN q
    ELSE IF procs[copy[i]].start_time = current_time
         THEN AdmitFrom([q EXCEPT !["NEW"] = Remove(q["NEW"], copy[i]),
                                  !["READY"] = Append(q["READY"], copy[i])],
                        copy, i + 1, current_time)
         ELSE AdmitFrom(q, copy, i + 1, current_time)

\* mutant: processes whose start_time is still ahead are admitted too
CheckForNewProcessesEarly(q, current_time) ==
    LET Due(p) == procs[p].start_time >= current_time
        NotDue(p) == ~Due(p)
    IN  [q EXCEPT !["NEW"] = SelectSeq(q["NEW"], NotDue),
                  !["READY"] = q["READY"] \o SelectSeq(q["NEW"], Due)]

CheckForNewProcessesOp(q, current_time) == AdmitFrom(q, q["NEW"], 1, current_time)

\* the loop of check_for_io_completion over the copy of BLOCKED, from index
\* i; draws[i] is the sample of random() taken for the i-th element
RECURSIVE CompleteFrom(_, _, _, _)
CompleteFrom(q, copy, i, draws) ==
    IF i > Len(copy) THEN q
    ELSE IF draws[i] < IoCompletionProb
         THEN CompleteFrom([q EXCEPT !["BLOCKED"] = Remove(q["BLOCKED"], copy[i]),
                                     !["READY"] = Append(q["READY"], copy[i])],
                           copy, i + 1, draws)
         ELSE CompleteFrom(q, copy, i + 1, draws)

\* mutant: no blocked process ever completes its I/O
CheckForIoCompletionNever(q, draws) == q

CheckForIoCompletionOp(q, draws) == CompleteFrom(q, q["BLOCKED"], 1, draws)

\* mutant: the running list is not popped
ContextSwitchNoPop(q, next_process) ==
    LET prev_running == RunningProcess(q)
        ready1 == IF prev_running # None /\ prev_running # next_process
                  THEN Append(q["READY"], prev_running)
                  ELSE q["READY"]
    IN  [q EXCEPT !["READY"] = Remove(ready1, next_process),
                  !["RUNNING"] = Append(q["RUNNING"], next_process)]

\* mutant: the process that was running is not put back in READY
ContextSwitchDropPrev(q, next_process) ==
    LET popped == IF q["RUNNING"] = <<>> THEN <<>>
                  ELSE SubSeq(q["RUNNING"], 1, Len(q["RUNNING"]) - 1)
    IN  [q EXCEPT !["READY"] = Remove(q["READY"], next_process),
                  !["RUNNING"] = Append(popped, next_process)]

ContextSwitch(q, next_process) ==
    LET prev_running == RunningProcess(q)
        popped == IF q["RUNNING"] = <<>> THEN <<>>
                  ELSE SubSeq(q["RUNNING"], 1, Len(q["RUNNING"]) - 1)
        ready1 == IF prev_running # None /\ prev_running # next_process
                  THEN Append(q["READY"], prev_running)
                  ELSE q["READY"]
    IN  [q EXCEPT !["READY"] = Remove(ready1, next_process),
                  !["RUNNING"] = Append(popped, next_process)]

\* mutant: schedule_next returns when either queue is empty
ScheduleNextOpEitherEmpty(q, policy) ==
    IF q["READY"] = <<>> \/ q["RUNNING"] = <<>> THEN q
    ELSE LET next_process == Schedule(policy, q["READY"], RunningProcess(q))
         IN  IF next_process = RunningProcess(q) THEN q
             ELSE ContextSwitch(q, next_process)

ScheduleNextOp(q, policy) ==
    IF q["READY"] = <<>> /\ q["RUNNING"] = <<>> THEN q
    ELSE LET next_process == Schedule(policy, q["READY"], RunningProcess(q))
         IN  IF next_process = RunningProcess(q) THEN q
             ELSE ContextSwitch(q, next_process)

HandleAction(q, action) ==
    IF action = ISSUE_IO
    THEN [q EXCEPT !["RUNNING"] = SubSeq(q["RUNNING"], 1, Len(q["RUNNING"]) - 1),
                   !["BLOCKED"] = Append(q["BLOCKED"],
                                         q["RUNNING"][Len(q["RUNNING"])])]
    ELSE q

TerminateProcess(q, process) ==
    [q EXCEPT !["RUNNING"] = SubSeq(q["RUNNING"], 1, Len(q["RUNNING"]) - 1),
              !["TERMINATED"] = Append(q["TERMINATED"], process)]

\* the completion test of SimEngine.run after a RUN action
IsComplete(executed, duration) == executed >= duration

\* no OperatingSystem method has been called directly
NoCall == [op |-> None, arg |-> None, error |-> None]

\* no second engine has been constructed
NoEngines == <<>>
NoHeap == <<>>

\* ---- the state after construction ----
Init ==
    /\ scheduling_policy \in Schedulers
    /\ duration_arg \in [PIDs -> DurationArgs]
    /\ \E starts \in [PIDs -> StartTimes], probs \in [PIDs -> ProbArgs] :
           procs = [p \in PIDs |-> NewProcess(starts[p], duration_arg[p], probs[p])]
    /\ time_executed = [p \in PIDs |-> 0]
    /\ processes = EmptyQueues
    /\ initial_processes = InitialList
    /\ time = 0
    /\ run_duration = 0
    /\ pc = "idle"
    /\ runs = 0
    /\ ticks = 0
    /\ last_call = NoCall
    /\ engine = NoEngines
    /\ heap = NoHeap

\* ---- SimEngine.run ----
\* the call: add_new_processes, then the loop is entered
Run(duration) ==
    /\ pc = "idle"
    /\ runs < MaxRuns
    /\ runs > 0 => duration <= ShortRun
    /\ processes' = AddNewProcesses(processes, initial_processes)
    /\ run_duration' = duration
    /\ runs' = runs + 1
    /\ ticks' = 0
    /\ pc' = "while"
    /\ UNCHANGED aux
    /\ UNCHANGED <<scheduling_policy, procs, duration_arg, time_executed,
                   initial_processes, time>>

\* the loop test succeeds and the tick starts with check_for_new_processes
CheckForNewProcesses ==
    /\ pc = "while"
    /\ time < run_duration
    /\ processes' = CheckForNewProcessesOp(processes, time)
    /\ pc' = "check_io"
    /\ UNCHANGED aux
    /\ UNCHANGED <<scheduling_policy, procs, duration_arg, time_executed,
                   initial_processes, time, run_duration, runs, ticks>>

CheckForIoCompletion ==
    /\ pc = "check_io"
    /\ \E draws \in [1..Len(processes["BLOCKED"]) -> RandomDraws] :
           processes' = CheckForIoCompletionOp(processes, draws)
    /\ pc' = "schedule"
    /\ UNCHANGED aux
    /\ UNCHANGED <<scheduling_policy, procs, duration_arg, time_executed,
                   initial_processes, time, run_duration, runs, ticks>>

ScheduleNext ==
    /\ pc = "schedule"
    /\ processes' = ScheduleNextOp(processes, scheduling_policy)
    /\ pc' = "execute"
    /\ UNCHANGED aux
    /\ UNCHANGED <<scheduling_policy, procs, duration_arg, time_executed,
                   initial_processes, time, run_duration, runs, ticks>>

\* the rest of the loop body: execute_tick, handle_action, the accounting of
\* a RUN, terminate_process, and the increment of the tick counter
ExecuteTick ==
    /\ pc = "execute"
    /\ LET process == RunningProcess(processes)
       IN  IF process = None
           THEN UNCHANGED <<processes, time_executed>>
           ELSE \E r \in RandomDraws :
                    LET action == ExecuteTickAction(process, r)
                        handled == HandleAction(processes, action)
                        executed == time_executed[process] + 1
                    IN  IF action = ISSUE_IO
                        THEN /\ processes' = handled
                             /\ UNCHANGED time_executed
                        ELSE /\ time_executed' =
                                    [time_executed EXCEPT ![process] = executed]
                             /\ processes' =
                                    IF IsComplete(executed, procs[process].duration)
                                    THEN TerminateProcess(handled, process)
                                    ELSE handled
    /\ time' = time + 1
    /\ ticks' = ticks + 1
    /\ pc' = "while"
    /\ UNCHANGED aux
    /\ UNCHANGED <<scheduling_policy, procs, duration_arg, initial_processes,
                   run_duration, runs>>

\* mutant: run() returns without resetting the tick counter
ReturnNoReset ==
    /\ pc = "while"
    /\ ~(time < run_duration)
    /\ run_duration' = 0
    /\ ticks' = 0
    /\ pc' = "idle"
    /\ UNCHANGED aux
    /\ UNCHANGED <<scheduling_policy, procs, duration_arg, time_executed,
                   processes, initial_processes, runs, time>>

\* the loop test fails: the counter is reset and run() returns
Return ==
    /\ pc = "while"
    /\ ~(time < run_duration)
    /\ time' = 0
    /\ run_duration' = 0
    /\ ticks' = 0
    /\ pc' = "idle"
    /\ UNCHANGED aux
    /\ UNCHANGED <<scheduling_policy, procs, duration_arg, time_executed,
                   processes, initial_processes, runs>>

Next ==
    \/ \E duration \in RunArgs : Run(duration)
    \/ CheckForNewProcesses
    \/ CheckForIoCompletion
    \/ ScheduleNext
    \/ ExecuteTick
    \/ Return

Spec == Init /\ [][Next]_vars

\* ---- the OperatingSystem called directly, in any order ----
MaxEntries == 3     \* largest number of entries over the five queues

Entries(q) ==
    Len(q["NEW"]) + Len(q["READY"]) + Len(q["RUNNING"]) + Len(q["BLOCKED"])
        + Len(q["TERMINATED"])

\* the lists add_new_processes is called with
SubmitLists == {<<"p0">>, <<"p1">>, <<"p0", "p1">>}

\* the actions handle_action is called with
ProcessAction == {RUN, ISSUE_IO, "TERMINATE"}

\* handle_action: list.pop() raises IndexError on an empty RUNNING
HandleActionCall(q, action) ==
    IF action = ISSUE_IO /\ q["RUNNING"] = <<>>
    THEN [queues |-> q, error |-> "IndexError"]
    ELSE [queues |-> HandleAction(q, action), error |-> None]

\* terminate_process: list.pop() raises IndexError on an empty RUNNING
TerminateProcessCall(q, process) ==
    IF q["RUNNING"] = <<>>
    THEN [queues |-> q, error |-> "IndexError"]
    ELSE [queues |-> TerminateProcess(q, process), error |-> None]

\* _context_switch: list.remove() raises ValueError when next_process is not
\* in READY, after RUNNING was popped and the popped process appended to READY
ContextSwitchCall(q, next_process) ==
    LET prev_running == RunningProcess(q)
        popped == IF q["RUNNING"] = <<>> THEN <<>>
                  ELSE SubSeq(q["RUNNING"], 1, Len(q["RUNNING"]) - 1)
        ready1 == IF prev_running # None /\ prev_running # next_process
                  THEN Append(q["READY"], prev_running)
                  ELSE q["READY"]
    IN  IF next_process \in Range(ready1)
        THEN [queues |-> ContextSwitch(q, next_process), error |-> None]
        ELSE [queues |-> [q EXCEPT !["RUNNING"] = popped, !["READY"] = ready1],
              error |-> "ValueError"]

\* the variables of the engine, which takes no part here
engine_vars == <<procs, scheduling_policy, duration_arg, time_executed,
                 initial_processes, time, run_duration, pc, runs, ticks>>

OSInit ==
    /\ scheduling_policy \in Schedulers
    /\ duration_arg \in [PIDs -> {1, 2}]
    /\ \E starts \in [PIDs -> StartTimes] :
           procs = [p \in PIDs |-> NewProcess(starts[p], duration_arg[p], 0)]
    /\ time_executed = [p \in PIDs |-> 0]
    /\ processes = EmptyQueues
    /\ initial_processes = <<>>
    /\ time = 0
    /\ run_duration = 0
    /\ pc = "idle"
    /\ runs = 0
    /\ ticks = 0
    /\ last_call = NoCall
    /\ engine = NoEngines
    /\ heap = NoHeap

OSAddNewProcesses(list) ==
    /\ Entries(processes) + Len(list) <= MaxEntries
    /\ processes' = AddNewProcesses(processes, list)
    /\ UNCHANGED <<engine, heap>>
    /\ last_call' = [op |-> "add_new_processes", arg |-> list, error |-> None]
    /\ UNCHANGED engine_vars

OSCheckForNewProcesses(current_time) ==
    /\ processes' = CheckForNewProcessesOp(processes, current_time)
    /\ UNCHANGED <<engine, heap>>
    /\ last_call' = [op |-> "check_for_new_processes", arg |-> current_time,
                     error |-> None]
    /\ UNCHANGED engine_vars

OSCheckForIoCompletion ==
    /\ \E draws \in [1..Len(processes["BLOCKED"]) -> RandomDraws] :
           processes' = CheckForIoCompletionOp(processes, draws)
    /\ UNCHANGED <<engine, heap>>
    /\ last_call' = [op |-> "check_for_io_completion", arg |-> None,
                     error |-> None]
    /\ UNCHANGED engine_vars

OSScheduleNext ==
    /\ processes' = ScheduleNextOp(processes, scheduling_policy)
    /\ UNCHANGED <<engine, heap>>
    /\ last_call' = [op |-> "schedule_next", arg |-> None, error |-> None]
    /\ UNCHANGED engine_vars

OSHandleAction(action) ==
    LET result == HandleActionCall(processes, action)
    IN  /\ processes' = result.queues
        /\ UNCHANGED <<engine, heap>>
    /\ last_call' = [op |-> "handle_action", arg |-> action,
                         error |-> result.error]
        /\ UNCHANGED engine_vars

OSTerminateProcess(process) ==
    LET result == TerminateProcessCall(processes, process)
    IN  /\ processes' = result.queues
        /\ UNCHANGED <<engine, heap>>
    /\ last_call' = [op |-> "terminate_process", arg |-> process,
                         error |-> result.error]
        /\ UNCHANGED engine_vars

OSContextSwitch(next_process) ==
    LET result == ContextSwitchCall(processes, next_process)
    IN  /\ processes' = result.queues
        /\ UNCHANGED <<engine, heap>>
    /\ last_call' = [op |-> "_context_switch", arg |-> next_process,
                         error |-> result.error]
        /\ UNCHANGED engine_vars

OSNext ==
    \/ \E list \in SubmitLists : OSAddNewProcesses(list)
    \/ \E current_time \in StartTimes : OSCheckForNewProcesses(current_time)
    \/ OSCheckForIoCompletion
    \/ OSScheduleNext
    \/ \E action \in ProcessAction : OSHandleAction(action)
    \/ \E process \in PIDs : OSTerminateProcess(process)
    \/ \E next_process \in PIDs : OSContextSwitch(next_process)

SpecOS == OSInit /\ [][OSNext]_vars

\* ---- two SimEngine objects ----
Engines == {"e1", "e2"}

\* the OperatingSystem() of the default argument of SimEngine.__init__, built
\* once when the def statement is executed
DefaultOS == "default"

\* the OperatingSystem built for an engine that is given one
OwnOS(e) == IF e = "e1" THEN "os1" ELSE "os2"

OSObjects == {DefaultOS} \cup {OwnOS(e) : e \in Engines}

\* the initial_processes each engine is constructed with
InitialOf(e) == IF e = "e1" THEN <<"p0">> ELSE <<"p1">>

\* SimEngine.__init__: opsys is the argument, or the default object
NewEngine(e, explicit) ==
    [opsys |-> IF explicit THEN OwnOS(e) ELSE DefaultOS,
     initial_processes |-> InitialOf(e),
     time |-> 0,
     run_duration |-> 0,
     pc |-> "idle",
     runs |-> 0]

\* the queues an engine observes through its opsys reference
Observed(e) == heap[engine[e].opsys]

\* no other engine is inside run(): the program has one thread
OthersIdle(e) == \A o \in Engines \ {e} : engine[o].pc = "idle"

\* the variables of the single engine, which takes no part here
single_vars == <<scheduling_policy, procs, duration_arg, processes,
                 initial_processes, time, run_duration, pc, runs, ticks,
                 last_call>>

IsoInit ==
    /\ scheduling_policy = "PSJF"
    /\ duration_arg \in [PIDs -> {1, 2}]
    /\ \E starts \in [PIDs -> StartTimes], probs \in [PIDs -> {0, 5}] :
           procs = [p \in PIDs |-> NewProcess(starts[p], duration_arg[p], probs[p])]
    /\ time_executed = [p \in PIDs |-> 0]
    /\ processes = EmptyQueues
    /\ initial_processes = <<>>
    /\ time = 0
    /\ run_duration = 0
    /\ pc = "idle"
    /\ runs = 0
    /\ ticks = 0
    /\ last_call = NoCall
    /\ \E explicit \in [Engines -> BOOLEAN] :
           engine = [e \in Engines |-> NewEngine(e, explicit[e])]
    /\ heap = [o \in OSObjects |-> EmptyQueues]

IsoRun(e, duration) ==
    /\ engine[e].pc = "idle"
    /\ OthersIdle(e)
    /\ engine[e].runs < MaxRuns
    /\ heap' = [heap EXCEPT ![engine[e].opsys] =
                    AddNewProcesses(@, engine[e].initial_processes)]
    /\ engine' = [engine EXCEPT ![e].run_duration = duration,
                                ![e].runs = @ + 1,
                                ![e].pc = "while"]
    /\ UNCHANGED <<single_vars, time_executed>>

IsoCheckForNewProcesses(e) ==
    /\ engine[e].pc = "while"
    /\ engine[e].time < engine[e].run_duration
    /\ heap' = [heap EXCEPT ![engine[e].opsys] =
                    CheckForNewProcessesOp(@, engine[e].time)]
    /\ engine' = [engine EXCEPT ![e].pc = "check_io"]
    /\ UNCHANGED <<single_vars, time_executed>>

IsoCheckForIoCompletion(e) ==
    /\ engine[e].pc = "check_io"
    /\ \E draws \in [1..Len(Observed(e)["BLOCKED"]) -> RandomDraws] :
           heap' = [heap EXCEPT ![engine[e].opsys] =
                        CheckForIoCompletionOp(@, draws)]
    /\ engine' = [engine EXCEPT ![e].pc = "schedule"]
    /\ UNCHANGED <<single_vars, time_executed>>

IsoScheduleNext(e) ==
    /\ engine[e].pc = "schedule"
    /\ heap' = [heap EXCEPT ![engine[e].opsys] =
                    ScheduleNextOp(@, scheduling_policy)]
    /\ engine' = [engine EXCEPT ![e].pc = "execute"]
    /\ UNCHANGED <<single_vars, time_executed>>

IsoExecuteTick(e) ==
    /\ engine[e].pc = "execute"
    /\ LET q == Observed(e)
           process == RunningProcess(q)
       IN  IF process = None
           THEN UNCHANGED <<heap, time_executed>>
           ELSE \E r \in RandomDraws :
                    LET action == ExecuteTickAction(process, r)
                        handled == HandleAction(q, action)
                        executed == time_executed[process] + 1
                    IN  IF action = ISSUE_IO
                        THEN /\ heap' = [heap EXCEPT ![engine[e].opsys] = handled]
                             /\ UNCHANGED time_executed
                        ELSE /\ time_executed' =
                                    [time_executed EXCEPT ![process] = executed]
                             /\ heap' = [heap EXCEPT ![engine[e].opsys] =
                                    IF IsComplete(executed, procs[process].duration)
                                    THEN TerminateProcess(handled, process)
                                    ELSE handled]
    /\ engine' = [engine EXCEPT ![e].time = @ + 1, ![e].pc = "while"]
    /\ UNCHANGED single_vars

IsoReturn(e) ==
    /\ engine[e].pc = "while"
    /\ ~(engine[e].time < engine[e].run_duration)
    /\ engine' = [engine EXCEPT ![e].time = 0,
                                ![e].run_duration = 0,
                                ![e].pc = "idle"]
    /\ UNCHANGED <<single_vars, time_executed, heap>>

IsoNext ==
    \E e \in Engines :
        \/ \E duration \in 0..ShortRun + 1 : IsoRun(e, duration)
        \/ IsoCheckForNewProcesses(e)
        \/ IsoCheckForIoCompletion(e)
        \/ IsoScheduleNext(e)
        \/ IsoExecuteTick(e)
        \/ IsoReturn(e)

SpecIsolation == IsoInit /\ [][IsoNext]_vars

\* ---- an unbounded run: run(duration) whose loop test never fails ----
\* the tick counter is followed up to one past the largest start_time; from
\* there on check_for_new_processes compares it with no start_time
LiveTime(t) == IF t > MaxStart THEN MaxStart + 1 ELSE t + 1

LiveInit ==
    /\ scheduling_policy \in Schedulers
    /\ duration_arg \in [PIDs -> {1, 2}]
    /\ \E starts \in [PIDs -> StartTimes], probs \in [PIDs -> {0, 5}] :
           procs = [p \in PIDs |-> NewProcess(starts[p], duration_arg[p], probs[p])]
    /\ time_executed = [p \in PIDs |-> 0]
    /\ processes = EmptyQueues
    /\ initial_processes = InitialList
    /\ time = 0
    /\ run_duration = 0
    /\ pc = "idle"
    /\ runs = 0
    /\ ticks = 0
    /\ last_call = NoCall
    /\ engine = NoEngines
    /\ heap = NoHeap

LiveRun ==
    /\ pc = "idle"
    /\ runs = 0
    /\ processes' = AddNewProcesses(processes, initial_processes)
    /\ runs' = 1
    /\ pc' = "while"
    /\ UNCHANGED aux
    /\ UNCHANGED <<scheduling_policy, procs, duration_arg, time_executed,
                   initial_processes, time, run_duration, ticks>>

LiveCheckForNewProcesses ==
    /\ pc = "while"
    /\ processes' = CheckForNewProcessesOp(processes, time)
    /\ pc' = "check_io"
    /\ UNCHANGED aux
    /\ UNCHANGED <<scheduling_policy, procs, duration_arg, time_executed,
                   initial_processes, time, run_duration, runs, ticks>>

LiveExecuteTick ==
    /\ pc = "execute"
    /\ LET process == RunningProcess(processes)
       IN  IF process = None
           THEN UNCHANGED <<processes, time_executed>>
           ELSE \E r \in RandomDraws :
                    LET action == ExecuteTickAction(process, r)
                        handled == HandleAction(processes, action)
                        executed == time_executed[process] + 1
                    IN  IF action = ISSUE_IO
                        THEN /\ processes' = handled
                             /\ UNCHANGED time_executed
                        ELSE /\ time_executed' =
                                    [time_executed EXCEPT ![process] = executed]
                             /\ processes' =
                                    IF IsComplete(executed, procs[process].duration)
                                    THEN TerminateProcess(handled, process)
                                    ELSE handled
    /\ time' = LiveTime(time)
    /\ pc' = "while"
    /\ UNCHANGED aux
    /\ UNCHANGED <<scheduling_policy, procs, duration_arg, initial_processes,
                   run_duration, runs, ticks>>

LiveNext ==
    \/ LiveRun
    \/ LiveCheckForNewProcesses
    \/ CheckForIoCompletion
    \/ ScheduleNext
    \/ LiveExecuteTick

\* the random choices: the running process p draws RUN, and the blocked
\* process p draws the completion of its I/O
DrawsRun(p) ==
    /\ LiveExecuteTick
    /\ RunningProcess(processes) = p
    /\ time_executed'[p] = time_executed[p] + 1

DrawsIoCompletion(p) ==
    /\ CheckForIoCompletion
    /\ p \in Range(processes["BLOCKED"])
    /\ p \notin Range(processes'["BLOCKED"])

\* the run goes on, and neither random choice goes against a process forever
LiveFairness ==
    /\ WF_vars(LiveNext)
    /\ \A p \in PIDs : SF_vars(DrawsRun(p))
    /\ \A p \in PIDs : SF_vars(DrawsIoCompletion(p))

LiveSpec == LiveInit /\ [][LiveNext]_vars /\ LiveFairness

\* ======================= properties =======================
Queue(state) == processes[state]

\* occurrences of p over the five state queues
Occurrences(q, p) ==
    Count(q["NEW"], p) + Count(q["READY"], p) + Count(q["RUNNING"], p)
        + Count(q["BLOCKED"], p) + Count(q["TERMINATED"], p)

Submitted == IF runs > 0 THEN Range(initial_processes) ELSE {}

\* C1: queue partition. Once run() has submitted the initial processes,
\* every submitted process is in exactly one of the five state queues, once,
\* and the queues hold nothing but submitted processes.
C1_QueuePartition ==
    /\ \A p \in Submitted : Occurrences(processes, p) = 1
    /\ \A state \in ProcessState : Range(Queue(state)) \subseteq Submitted

\* C2: running cardinality. RUNNING holds at most one process, after
\* schedule_next and in every other state of the tick protocol.
C2_RunningAtMostOne == Len(Queue("RUNNING")) <= 1

\* C2 witness: schedule_next has just preempted p0 (it ran at tick 0, never
\* issues I/O, and is back in READY) in favour of p1 under PSJF.
C2_Witness ==
    /\ scheduling_policy = "PSJF"
    /\ pc = "execute"
    /\ runs = 1
    /\ time = 1
    /\ procs["p0"].prob_io_request = 0
    /\ time_executed["p0"] = 1
    /\ Queue("READY") = <<"p0">>
    /\ Queue("RUNNING") = <<"p1">>

\* C3: monotonic progress. In every step time_executed of every process
\* does not decrease, and it never exceeds the process's duration.
C3_MonotonicProgress ==
    [][\A p \in PIDs : /\ time_executed'[p] >= time_executed[p]
                       /\ time_executed'[p] <= procs'[p].duration]_vars

\* C4: termination correctness. A step moves a process into TERMINATED if
\* and only if it applied a RUN action to it that left time_executed equal to
\* duration, and every process in TERMINATED has time_executed = duration.
C4_TerminationCorrectness ==
    [][\A p \in PIDs :
          /\ (Count(processes'["TERMINATED"], p) > Count(Queue("TERMINATED"), p))
                 <=> (/\ time_executed'[p] = time_executed[p] + 1
                      /\ time_executed'[p] = procs[p].duration)
          /\ p \in Range(processes'["TERMINATED"])
                 => time_executed'[p] = procs[p].duration]_vars

\* C5: FIFO non-preemption. Under FIFO a step changes RUNNING only by
\* emptying it, the process that ran going to the back of BLOCKED or of
\* TERMINATED and READY staying as it was: nothing moves it back to READY.
C5_FIFONonPreemption ==
    [][(scheduling_policy = "FIFO" /\ Queue("RUNNING") # <<>>
            /\ processes'["RUNNING"] # Queue("RUNNING"))
        => LET p == Queue("RUNNING")[1]
           IN  /\ processes'["RUNNING"] = <<>>
               /\ processes'["READY"] = Queue("READY")
               /\ \/ processes'["BLOCKED"] = Append(Queue("BLOCKED"), p)
                  \/ processes'["TERMINATED"] = Append(Queue("TERMINATED"), p)]_vars

\* C5 witness: under FIFO p0 has run and is still running after schedule_next
\* although p1 waits in READY with less remaining work and no later start.
C5_Witness ==
    /\ scheduling_policy = "FIFO"
    /\ pc = "execute"
    /\ runs = 1
    /\ Queue("RUNNING") = <<"p0">>
    /\ Queue("READY") = <<"p1">>
    /\ time_executed["p0"] >= 1
    /\ Remaining("p1") < Remaining("p0")
    /\ procs["p1"].start_time <= procs["p0"].start_time

\* C6: PSJF correctness. A schedule_next step under PSJF with READY or
\* RUNNING non-empty leaves in RUNNING a process whose remaining is no
\* larger than that of any process READY or RUNNING held at the call.
C6_PSJFPicksShortest ==
    [][(pc = "schedule" /\ scheduling_policy = "PSJF"
            /\ (Queue("READY") # <<>> \/ Queue("RUNNING") # <<>>))
        => /\ processes'["RUNNING"] # <<>>
           /\ \A q \in Range(Queue("READY")) \cup Range(Queue("RUNNING")) :
                  Remaining(processes'["RUNNING"][1]) <= Remaining(q)]_vars

\* C6 witness: after schedule_next under PSJF the running process has run
\* before and a READY process with strictly more remaining work waits.
C6_Witness ==
    /\ scheduling_policy = "PSJF"
    /\ pc = "execute"
    /\ Queue("RUNNING") # <<>>
    /\ time_executed[Queue("RUNNING")[1]] >= 1
    /\ \E q \in Range(Queue("READY")) :
           /\ Remaining(q) > Remaining(Queue("RUNNING")[1])
           /\ procs[q].duration <= procs[Queue("RUNNING")[1]].duration

\* Scenario C: p0{start 0, duration 5}, p1{start 1, duration 1}, no I/O,
\* PSJF, in the first run(), which is a long one.
ScenarioC ==
    /\ scheduling_policy = "PSJF"
    /\ procs["p0"] = [start_time |-> 0, duration |-> 5, prob_io_request |-> 0]
    /\ procs["p1"] = [start_time |-> 1, duration |-> 1, prob_io_request |-> 0]
    /\ runs = 1
    /\ run_duration >= 6

\* time_executed of p0 at the start of tick t in scenario C
ScenarioC_p0Executed(t) == IF t = 0 THEN 0 ELSE IF t = 1 THEN 1 ELSE t - 1

\* C7: the timeline of scenario C. p0 runs at tick 0; at tick 1 p1 is
\* admitted, preempts p0, runs and terminates; p0 runs at ticks 2..5 and
\* terminates at tick 5.
C7_ScenarioC ==
    ScenarioC =>
        /\ (pc = "execute" /\ time \in {0, 2, 3, 4, 5})
               => Queue("RUNNING") = <<"p0">>
        /\ (pc = "execute" /\ time = 1)
               => Queue("RUNNING") = <<"p1">> /\ Queue("READY") = <<"p0">>
        /\ (pc = "while" /\ time <= 6)
               => /\ time_executed["p0"] = ScenarioC_p0Executed(time)
                  /\ time_executed["p1"] = (IF time >= 2 THEN 1 ELSE 0)
        /\ (pc = "while" /\ time <= 1) => Queue("TERMINATED") = <<>>
        /\ (pc = "while" /\ time \in 2..5) => Queue("TERMINATED") = <<"p1">>
        /\ (pc = "while" /\ time >= 6) => Queue("TERMINATED") = <<"p1", "p0">>

\* C7 witness: scenario C after tick 5, both processes terminated.
C7_Witness ==
    /\ ScenarioC
    /\ pc = "while"
    /\ time = 6
    /\ Queue("TERMINATED") = <<"p1", "p0">>
    /\ time_executed = [p \in PIDs |-> procs[p].duration]

Max0(n) == IF n > 0 THEN n ELSE 0

\* C8: run(duration) passes through the loop body exactly duration times
\* (never when duration <= 0); the tick counter goes up by one per pass and
\* only then, stays within duration, and is 0 when run() has returned.
C8_RunExecutesDurationTicks ==
    [][/\ (pc' # "idle" /\ pc # "idle")
             => (IF pc = "execute"
                 THEN time' = time + 1 /\ ticks' = ticks + 1
                 ELSE time' = time /\ ticks' = ticks)
       /\ pc' # "idle" => (time' = ticks' /\ ticks' <= Max0(run_duration'))
       /\ (pc # "idle" /\ pc' = "idle") => ticks = Max0(run_duration)
       /\ pc' = "idle" => time' = 0]_vars

\* C8 witness: the second run() is about to return after its one tick.
C8_Witness ==
    /\ runs = 2
    /\ pc = "while"
    /\ run_duration = 1
    /\ ticks = 1
    /\ time = 1

\* C9: the initial list is consumed once. A run() after the first one
\* leaves the queues as they are, and no process is ever held twice.
C9_SubmittedOnce ==
    [][/\ (pc = "idle" /\ pc' # "idle" /\ runs >= 1) => processes' = processes
       /\ \A p \in PIDs : Occurrences(processes', p) <= 1]_vars

\* a configuration the specification calls malformed
Malformed ==
    \/ \E p \in PIDs : duration_arg[p] < 0
    \/ \E p \in PIDs : procs[p].prob_io_request \notin 0..10
    \/ pc # "idle" /\ run_duration <= 0

\* C10: a malformed configuration aborts the run before any tick: the
\* queues stay empty, no process executes and no tick is counted.
C10_MalformedAborts ==
    Malformed => /\ processes = EmptyQueues
                 /\ time_executed = [p \in PIDs |-> 0]
                 /\ ticks = 0

\* a process that requests I/O on every tick it runs and has work to do
AlwaysIssuesIO(p) == procs[p].prob_io_request = 10 /\ procs[p].duration >= 1

\* C12: scenario D, safety part. A process with I/O-request probability 1.0
\* and duration >= 1 never has time_executed incremented and never enters
\* TERMINATED; the tick that finds it RUNNING moves it to the back of
\* BLOCKED; it leaves BLOCKED only in check_for_io_completion, for READY,
\* and READY gains it only by admission or I/O completion, never by a
\* context switch.
C12_AlwaysIOProcess ==
    [][\A p \in PIDs : AlwaysIssuesIO(p) =>
          /\ time_executed'[p] = 0
          /\ p \notin Range(processes'["TERMINATED"])
          /\ (pc = "execute" /\ Queue("RUNNING") = <<p>>)
                 => /\ processes'["RUNNING"] = <<>>
                    /\ processes'["BLOCKED"] = Append(Queue("BLOCKED"), p)
          /\ (Count(processes'["BLOCKED"], p) < Count(Queue("BLOCKED"), p))
                 => /\ pc = "check_io"
                    /\ Count(processes'["READY"], p) > Count(Queue("READY"), p)
          /\ (Count(processes'["READY"], p) > Count(Queue("READY"), p))
                 => pc \in {"while", "check_io"}]_vars

\* C12 witness: such a process is READY again after an I/O completion, in
\* the first run(), still with nothing executed.
C12_Witness ==
    \E p \in PIDs :
        /\ AlwaysIssuesIO(p)
        /\ runs = 1
        /\ pc = "schedule"
        /\ time >= 1 + procs[p].start_time
        /\ p \in Range(Queue("READY"))
        /\ time_executed[p] = 0

\* the pool PSJF chooses from: READY in queue order, then the running process
Pool(q) == q["READY"] \o q["RUNNING"]

\* i is the first position of the pool s that holds the smallest remaining
FirstShortest(s, i) ==
    /\ \A j \in 1..Len(s) : Remaining(s[i]) <= Remaining(s[j])
    /\ \A j \in 1..(i - 1) : Remaining(s[j]) > Remaining(s[i])

\* C13: PSJF tie-break. schedule_next under PSJF puts in RUNNING the first
\* process of the pool (READY in order, then the running one) among those
\* with the smallest remaining; when another process in READY ties with the
\* running one on the smallest remaining, it replaces the running process,
\* which goes to the back of READY.
C13_PSJFTieBreak ==
    [][(pc = "schedule" /\ scheduling_policy = "PSJF" /\ Pool(processes) # <<>>)
        => LET pool == Pool(processes)
               running == Queue("RUNNING")
           IN  /\ \E i \in 1..Len(pool) :
                      /\ FirstShortest(pool, i)
                      /\ processes'["RUNNING"] = <<pool[i]>>
               /\ (/\ running # <<>>
                   /\ \E i \in 1..Len(Queue("READY")) :
                          /\ FirstShortest(pool, i)
                          /\ pool[i] # running[1]
                          /\ Remaining(pool[i]) = Remaining(running[1]))
                      => /\ processes'["RUNNING"] # running
                         /\ processes'["READY"][Len(processes'["READY"])]
                                = running[1]]_vars

\* C13 witness: p0 ran at tick 0 and never issues I/O; at tick 1 the newly
\* admitted p1 tied with it on remaining and took its place.
C13_Witness ==
    /\ scheduling_policy = "PSJF"
    /\ pc = "execute"
    /\ runs = 1
    /\ time = 1
    /\ procs["p0"].prob_io_request = 0
    /\ procs["p1"].start_time = 1
    /\ time_executed["p0"] = 1
    /\ Remaining("p0") = Remaining("p1")
    /\ Queue("RUNNING") = <<"p1">>
    /\ Queue("READY") = <<"p0">>

\* i is the first position of the list s that holds the smallest start_time
FirstEarliest(s, i) ==
    /\ \A j \in 1..Len(s) : procs[s[i]].start_time <= procs[s[j]].start_time
    /\ \A j \in 1..(i - 1) : procs[s[j]].start_time > procs[s[i]].start_time

\* C14: FIFO selection. On the READY list and running process of every
\* state in which schedule_next is about to run, FIFOScheduler.schedule
\* returns, when nothing is running, the first READY process among those with
\* the smallest start_time; it returns None exactly when READY is empty and
\* nothing is running; what it returns is in READY or is the running process;
\* and under FIFO an idle CPU receives that process.
C14_FIFOSelection ==
    [][pc = "schedule"
        => LET ready == Queue("READY")
               running == RunningProcess(processes)
               chosen == FIFOSchedule(ready, running)
           IN  /\ (running = None /\ ready # <<>>)
                      => \E i \in 1..Len(ready) :
                             FirstEarliest(ready, i) /\ chosen = ready[i]
               /\ (chosen = None) <=> (ready = <<>> /\ running = None)
               /\ chosen # None => chosen \in Range(ready) \cup {running}
               /\ (scheduling_policy = "FIFO" /\ chosen # None)
                      => processes'["RUNNING"] = <<chosen>>]_vars

\* C14 witness: schedule_next is about to run under FIFO with an idle CPU
\* and READY = <<p1, p0>>, where p0 behind p1 has the smaller start_time.
C14_Witness ==
    /\ scheduling_policy = "FIFO"
    /\ pc = "schedule"
    /\ runs = 1
    /\ Queue("RUNNING") = <<>>
    /\ Queue("READY") = <<"p1", "p0">>
    /\ procs["p0"].start_time < procs["p1"].start_time

\* the list s without its i-th element
Without(s, i) == SubSeq(s, 1, i - 1) \o SubSeq(s, i + 1, Len(s))

\* C15: effect of schedule_next. With READY and RUNNING both empty nothing
\* changes. Otherwise RUNNING ends with exactly one process; if that is the
\* process that was running, no queue changes; if not, it was in READY, it
\* is taken out of READY with the order of the others kept, the process that
\* was running (if any) is appended to the back of READY, and NEW, BLOCKED
\* and TERMINATED are unchanged.
C15_ScheduleNextEffect ==
    [][pc = "schedule"
        => LET ready == Queue("READY")
               running == Queue("RUNNING")
           IN  IF ready = <<>> /\ running = <<>>
               THEN processes' = processes
               ELSE \E c \in PIDs :
                        /\ processes'["RUNNING"] = <<c>>
                        /\ IF running = <<c>>
                           THEN processes' = processes
                           ELSE /\ \E i \in 1..Len(ready) :
                                       /\ ready[i] = c
                                       /\ processes'["READY"] =
                                              Without(ready, i) \o running
                                /\ processes'["NEW"] = Queue("NEW")
                                /\ processes'["BLOCKED"] = Queue("BLOCKED")
                                /\ processes'["TERMINATED"] = Queue("TERMINATED")]_vars

\* C15 witness: at tick 0 of the first run() both processes were admitted
\* and schedule_next moved the second of them, p1, from READY to RUNNING.
C15_Witness ==
    /\ pc = "execute"
    /\ runs = 1
    /\ time = 0
    /\ Queue("RUNNING") = <<"p1">>
    /\ Queue("READY") = <<"p0">>
    /\ Queue("NEW") = <<>>

\* C16: arrival admission. check_for_new_processes(t) appends to READY the
\* NEW processes whose start_time is t, in their order in NEW, leaves the
\* others in NEW in their order, and changes no other queue; no other step
\* takes a process out of NEW.
C16_ArrivalAdmission ==
    [][LET Due(p) == procs[p].start_time = time
           NotDue(p) == procs[p].start_time # time
       IN  /\ (pc = "while" /\ pc' = "check_io")
                  => /\ processes'["NEW"] = SelectSeq(Queue("NEW"), NotDue)
                     /\ processes'["READY"] =
                            Queue("READY") \o SelectSeq(Queue("NEW"), Due)
                     /\ processes'["RUNNING"] = Queue("RUNNING")
                     /\ processes'["BLOCKED"] = Queue("BLOCKED")
                     /\ processes'["TERMINATED"] = Queue("TERMINATED")
           /\ \A p \in PIDs :
                  Count(processes'["NEW"], p) < Count(Queue("NEW"), p)
                      => pc = "while" /\ pc' = "check_io" /\ Due(p)]_vars

\* C16 witness: at tick 0 p0 (start_time 0) has been admitted and p1
\* (start_time 1) has stayed in NEW.
C16_Witness ==
    /\ pc = "check_io"
    /\ runs = 1
    /\ time = 0
    /\ procs["p1"].start_time = 1
    /\ Queue("NEW") = <<"p1">>
    /\ Queue("READY") = <<"p0">>

\* C17: TERMINATED is absorbing. A process in TERMINATED is in TERMINATED
\* after every step, is not put in RUNNING, READY or BLOCKED, and its
\* time_executed does not change.
C17_TerminatedAbsorbing ==
    [][\A p \in PIDs : p \in Range(Queue("TERMINATED")) =>
          /\ p \in Range(processes'["TERMINATED"])
          /\ p \notin Range(processes'["RUNNING"])
          /\ p \notin Range(processes'["READY"])
          /\ p \notin Range(processes'["BLOCKED"])
          /\ time_executed'[p] = time_executed[p]]_vars

\* C19: work conservation. After schedule_next RUNNING is non-empty exactly
\* when READY or RUNNING was non-empty before it.
C19_WorkConservation ==
    [][pc = "schedule"
        => ((processes'["RUNNING"] # <<>>)
               <=> (Queue("READY") # <<>> \/ Queue("RUNNING") # <<>>))]_vars

\* C19 witness: at tick 0 of the first run(), where the CPU was idle before
\* schedule_next, a process is RUNNING after it and the other one waits.
C19_Witness ==
    /\ pc = "execute"
    /\ runs = 1
    /\ time = 0
    /\ Queue("RUNNING") # <<>>
    /\ Queue("READY") # <<>>
    /\ scheduling_policy = "FIFO"

\* the process the call in last_call' has to remove is not where it must be
MisplacedCall ==
    LET call == last_call'
    IN  \/ /\ call.op = "handle_action"
           /\ call.arg = ISSUE_IO
           /\ Queue("RUNNING") = <<>>
        \/ /\ call.op = "terminate_process"
           /\ Queue("RUNNING") # <<call.arg>>
        \/ /\ call.op = "_context_switch"
           /\ call.arg \notin Range(Queue("READY"))

\* C11: internal invariant violations are fatal. handle_action(ISSUE_IO),
\* terminate_process(p) or a context switch called when the process to remove
\* is not in the expected queue raises an error and moves no process.
C11_ViolationsAreFatal ==
    [][MisplacedCall => (last_call'.error # None /\ processes' = processes)]_vars

\* C18: runs are isolated. Two SimEngine instances, also when constructed
\* without an OperatingSystem argument, each own their own OperatingSystem,
\* and no step of one engine changes the queues observed by the other.
C18_RunsIsolated ==
    [][\A e \in Engines :
           engine'[e] # engine[e] =>
               \A o \in Engines \ {e} :
                   /\ engine[o].opsys # engine[e].opsys
                   /\ heap'[engine'[o].opsys] = heap[engine[o].opsys]]_vars

\* C20: eventual completion. In an unbounded run over processes of duration
\* at least 1, with both random choices fair, every process whose start_time
\* is reached eventually enters TERMINATED, under FIFO and PSJF alike.
C20_EventualCompletion ==
    \A p \in PIDs : <>(p \in Range(Queue("TERMINATED")))

\* under FIFO, two processes of duration 2 that issue I/O on half of their
\* draws, p0 arriving at the last start tick, have both terminated
C20_Witness ==
    /\ scheduling_policy = "FIFO"
    /\ procs["p0"].prob_io_request = 5
    /\ procs["p1"].prob_io_request = 5
    /\ procs["p0"].start_time = MaxStart
    /\ duration_arg = [p \in PIDs |-> 2]
    /\ Range(Queue("TERMINATED")) = PIDs
    /\ Len(Queue("TERMINATED")) = 2

====
